---- MODULE Spec2Model ----
(***************************************************************************)
(* Model of the settings dashboard's stateful views:                       *)
(*   SelfCheck     (src/settings-dashboard/src/component/SelfCheck.tsx)     *)
(*   UpdateChannel (src/settings-dashboard/src/component/UpdateChannel.tsx) *)
(*   EnvConfiguration (src/unnamed/part_000)                                *)
(*                                                                         *)
(* A view is a React function component.  Its useState cells are the       *)
(* variables below; every state setter call writes its cell.  An async     *)
(* handler is split at each await: the part up to the await is one action, *)
(* the continuation after the awaited request settles is another.  A       *)
(* useEffect whose dependency changed in a commit is run with that commit  *)
(* (its cleanup first), as part of the step that changed the dependency.   *)
(* The setters are called by a continuation whether or not the view is     *)
(* still mounted: the source holds no mounted flag and aborts no request.  *)
(*                                                                         *)
(* An optional value (T | null) is the empty sequence Null or <<v>>.       *)
(***************************************************************************)
EXTENDS Integers, Sequences, FiniteSets, TLC

\* Most requests (GET self-check-status) one view may have outstanding.
MaxInFlight == 2

Null == <<>>

Some(v) == <<v>>

\* SelfCheckStatus.overallStatus, the cases of getStatusHexColor.
OverallStatuses == {"success", "failure", "partial", "never_run"}

\* The SelfCheckStatus values a self-check-status response may carry.
Snapshots == [isRunning : BOOLEAN, overallStatus : OverallStatuses]

\* err.message of a rejected request: "" stands for a missing (falsy) message.
ErrMessages == {"", "Network error"}

\* a || b on strings.
OrElse(a, b) == IF a = "" THEN b ELSE a

\* What started a GET /api/admin/self-check-status.
Causes == {"mount", "effect", "tick", "action"}

\* Most pieces a URL string of the model is made of.
MaxUrlTokens == 2

\* A string is the concatenation of a sequence of these pieces; no piece is a
\* concatenation of others, so two sequences differ iff their strings do.
LocalToken == "local"

DevToken == "https://github.com/Yundera/template-root/archive/refs/heads/main.zip"

Tokens == {" ", LocalToken, DevToken, "https://mycustom/repo.zip"}

RECURSIVE SeqsUpTo(_, _)
SeqsUpTo(S, n) ==
    IF n = 0 THEN {<<>>}
    ELSE LET shorter == SeqsUpTo(S, n - 1) IN
         shorter \cup {Append(q, x) : q \in shorter, x \in S}

Strings == SeqsUpTo(Tokens, MaxUrlTokens)

\* The string literals of UpdateChannel.tsx.
EmptyString == <<>>

LocalUrl == <<LocalToken>>

DevUrl == <<DevToken>>

RECURSIVE TrimStart(_)
TrimStart(str) ==
    IF str # <<>> /\ Head(str) = " " THEN TrimStart(Tail(str)) ELSE str

RECURSIVE TrimEnd(_)
TrimEnd(str) ==
    IF str # <<>> /\ str[Len(str)] = " " THEN TrimEnd(SubSeq(str, 1, Len(str) - 1)) ELSE str

\* String.prototype.trim()
Trim(str) == TrimEnd(TrimStart(str))

\* The channel values of UpdateChannelType.
Channels == {"stable", "dev", "local", "custom"}

\* Most scripts a snapshot of the model lists.
MaxScripts == 2

\* Script names (the keys of SelfCheckStatus.scripts).
ScriptNames == {"check-dns", "check-disk", "check-docker"}

\* SelfCheckStatus.scripts as Object.entries lists it: [name, success] in
\* insertion order, each name once.
ScriptLists ==
    {q \in SeqsUpTo([name : ScriptNames, success : BOOLEAN], MaxScripts) :
        \A i, j \in 1..Len(q) : i # j => q[i].name # q[j].name}

\* A snapshot with its scripts, as the render reads it.  The handlers and the
\* poll effect never read scripts, so Snapshots leaves them out.
FullSnapshots == [isRunning : BOOLEAN, overallStatus : OverallStatuses, scripts : ScriptLists]

\* The values a field of ConfigValues takes in the model: empty or not.
EnvValues == {"", "set"}

\* ConfigValues, the data of a get-environment response (Domain is the
\* source's DOMAIN).
ConfigValues == [Domain : EnvValues, PROVIDER_STR : EnvValues, UID : EnvValues,
                 DEFAULT_PWD : EnvValues, PUBLIC_IP : EnvValues, DEFAULT_USER : EnvValues]

\* The initial config of EnvConfiguration: every field ''.
EmptyConfig == [Domain |-> "", PROVIDER_STR |-> "", UID |-> "",
                DEFAULT_PWD |-> "", PUBLIC_IP |-> "", DEFAULT_USER |-> ""]

\* response.status of get-environment: 'success' or anything else.
EnvStatuses == {"success", "error"}

\* What a rejected get-environment throws: an Error with its message, or Null
\* for a value that is not an Error.
EnvRejections == {Some(m) : m \in ErrMessages} \cup {Null}

VARIABLES
    view,      \* "created" | "mounted" | "unmounted": the component's lifecycle
    loading,   \* useState(false)
    checking,  \* useState(false)
    error,     \* useState<string | null>(null)
    status,    \* useState<SelfCheckStatus | null>(null)
    gets,      \* GET self-check-status requests in flight, oldest first: [cause,
               \* overtaken: a GET issued later has already resolved]
    posts,     \* number of POST self-check-run requests of handleRunSelfCheck in flight
    intervals, \* the armed setInterval timers: [id, isRunning captured by the callback]
    interval,  \* `const interval` of the effect run whose cleanup is pending (0: none)
    last,      \* the step just taken: [ev, cause of the GET settled, msg of the
               \* rejection, resp: the snapshot of the response, late: the GET
               \* resolved was overtaken]
    issued,    \* causes of the GETs issued by the step just taken
    pollBit,   \* flips each time a timer tick issues a GET
    \* UpdateChannel
    ucView,    \* "created" | "mounted"
    ucLoading, \* useState(false)
    ucError,   \* useState<string | null>(null)
    config,    \* useState<UpdateChannelConfig>: [channel, customUrl (optional)]
    customUrl, \* useState('')
    loads,     \* number of GET update-channel requests in flight
    saves,     \* handleSaveChannel calls awaiting a request: [phase, updateUrl]
    ucLast,    \* the step just taken: [ev, msg of the rejection, url of the GET response]
    ucSent,    \* the requests sent by the step just taken
    \* The script rows of SelfCheck's render
    shown,     \* the snapshot a render is given, with its scripts (Null: none yet)
    rows,      \* the script rows that render produced (Null: not rendered yet)
    \* EnvConfiguration
    envView,      \* "created" | "mounted"
    showPassword, \* useState(false)
    envConfig,    \* useState<ConfigValues>({DOMAIN: '', ...})
    envLoading,   \* useState(true)
    envError,     \* useState<string | null>(null)
    envGets,      \* number of GET get-environment requests in flight
    envLast       \* the step just taken: [ev, status and data of the response]

scVars == <<view, loading, checking, error, status, gets, posts, intervals,
            interval, last, issued, pollBit>>

ucVars == <<ucView, ucLoading, ucError, config, customUrl, loads, saves, ucLast, ucSent>>

rowVars == <<shown, rows>>

envVars == <<envView, showPassword, envConfig, envLoading, envError, envGets, envLast>>

vars == <<scVars, ucVars, rowVars, envVars>>

----------------------------------------------------------------------------
\* status?.isRunning, the dependency of the poll effect: undefined, false or true.
Dep(s) == IF s = Null THEN "undefined" ELSE IF s[1].isRunning THEN "true" ELSE "false"

\* Truthiness of status?.isRunning.
IsRunning(s) == s # Null /\ s[1].isRunning

RemoveAt(q, i) == [j \in 1..(Len(q) - 1) |-> IF j < i THEN q[j] ELSE q[j + 1]]

\* The id setInterval returns: one no armed timer of ts has.
NewIntervalId(ts) == CHOOSE n \in 1..(Cardinality(ts) + 1) : \A t \in ts : t.id # n

\* clearInterval(id)
ClearInterval(ts, id) == {t \in ts : t.id # id}

\* A cleanup that clears nothing.
CleanupLeavesTimer(ts, id) == ts

\* The effect's cleanup, `() => clearInterval(interval)`.
Cleanup(ts, id) == ClearInterval(ts, id)

\* An effect that is never re-run (an empty dependency list).
DepsNeverChange(old, new) == FALSE

\* React re-runs the effect when its dependency list [status?.isRunning] changed.
DepsChanged(old, new) == Dep(old) # Dep(new)

\* A render that always offers the button.
ButtonAlwaysShown == TRUE

\* The button branch of the render: the Run Self-Check button is rendered.
ButtonShown == ~(loading \/ checking \/ IsRunning(status))

\* The characters of an overallStatus value, in pieces: words and "_".
Pieces(overallStatus) ==
    CASE overallStatus = "success" -> <<"success">>
      [] overallStatus = "failure" -> <<"failure">>
      [] overallStatus = "partial" -> <<"partial">>
      [] overallStatus = "never_run" -> <<"never", "_", "run">>

\* String.prototype.replace(from, to) with a string pattern: the first
\* occurrence only.
RECURSIVE ReplaceFirst(_, _, _)
ReplaceFirst(str, from, to) ==
    IF str = <<>> THEN <<>>
    ELSE IF Head(str) = from THEN <<to>> \o Tail(str)
    ELSE <<Head(str)>> \o ReplaceFirst(Tail(str), from, to)

\* toUpperCase() of one piece.
UpperPiece(p) ==
    CASE p = "success" -> "SUCCESS"
      [] p = "failure" -> "FAILURE"
      [] p = "partial" -> "PARTIAL"
      [] p = "never" -> "NEVER"
      [] p = "run" -> "RUN"
      [] OTHER -> p

\* String.prototype.toUpperCase()
ToUpperCase(str) == [k \in 1..Len(str) |-> UpperPiece(str[k])]

\* The chip's label: status.overallStatus.replace('_', ' ').toUpperCase().
ChipLabel(overallStatus) == ToUpperCase(ReplaceFirst(Pieces(overallStatus), "_", " "))

\* A chip that shows never_run while no snapshot is held.
ChipDefaultsToNeverRun ==
    IF status = Null THEN Some(ChipLabel("never_run"))
    ELSE Some(ChipLabel(status[1].overallStatus))

\* The render's status chip, `{status && <Chip label=... />}`: Null when no chip
\* is rendered.
Chip == IF status = Null THEN Null ELSE Some(ChipLabel(status[1].overallStatus))

InitSC ==
    /\ view = "created"
    /\ loading = FALSE
    /\ checking = FALSE
    /\ error = Null
    /\ status = Null
    /\ gets = <<>>
    /\ posts = 0
    /\ intervals = {}
    /\ interval = 0
    /\ last = [ev |-> "init", cause |-> "-", msg |-> "", resp |-> Null, late |-> FALSE]
    /\ issued = <<>>
    /\ pollBit = FALSE

InitUC ==
    /\ ucView = "created"
    /\ ucLoading = FALSE
    /\ ucError = Null
    /\ config = [channel |-> "stable", customUrl |-> Some(EmptyString)]
    /\ customUrl = EmptyString
    /\ loads = 0
    /\ saves = <<>>
    /\ ucLast = [ev |-> "init", msg |-> "", url |-> Null]
    /\ ucSent = <<>>

InitRows ==
    /\ shown = Null
    /\ rows = Null

InitEnv ==
    /\ envView = "created"
    /\ showPassword = FALSE
    /\ envConfig = EmptyConfig
    /\ envLoading = TRUE
    /\ envError = Null
    /\ envGets = 0
    /\ envLast = [ev |-> "init", status |-> "", data |-> Null]

Init == InitSC /\ InitUC /\ InitRows /\ InitEnv
----------------------------------------------------------------------------
\* The synchronous part of checkStatus(), up to its await: the GET is sent.
CheckStatus(cause, q) ==
    /\ checking' = TRUE
    /\ error' = Null
    /\ gets' = Append(q, [cause |-> cause, overtaken |-> FALSE])
    /\ issued' = <<cause>>

\* A callback that reads the snapshot of the render before the commit.
SetIntervalOfEarlierRender(ts, s) ==
    LET id == NewIntervalId(ts) IN
    /\ intervals' = ts \cup {[id |-> id, isRunning |-> IsRunning(status)]}
    /\ interval' = id

\* setInterval(() => { if (status?.isRunning) checkStatus(); }, 2000) in a render
\* that holds snapshot s, over the armed timers ts.
SetInterval(ts, s) ==
    LET id == NewIntervalId(ts) IN
    /\ intervals' = ts \cup {[id |-> id, isRunning |-> IsRunning(s)]}
    /\ interval' = id

\* The body of the poll effect, run for a render that holds snapshot s.
PollEffect(cause, q, ts, s) ==
    /\ CheckStatus(cause, q)
    /\ SetInterval(ts, s)

\* First commit of the view: the effect runs for the first time.
Mount ==
    /\ view = "created"
    /\ view' = "mounted"
    /\ PollEffect("mount", gets, intervals, status)
    /\ last' = [ev |-> "mount", cause |-> "-", msg |-> "", resp |-> Null, late |-> FALSE]
    /\ UNCHANGED <<loading, status, posts, pollBit>>
    /\ UNCHANGED ucVars
    /\ UNCHANGED rowVars
    /\ UNCHANGED envVars

\* A callback without its test: every tick fetches.
TickAlwaysFetches(t) == TRUE

\* What a timer callback decides: fetch iff the isRunning it captured is truthy.
TickFetches(t) == t.isRunning

\* One period of an armed interval timer elapses and its callback runs.
Tick ==
    \E t \in intervals :
        /\ IF TickFetches(t)
              THEN /\ Len(gets) < MaxInFlight
                   /\ CheckStatus("tick", gets)
                   /\ pollBit' = ~pollBit
              ELSE /\ issued' = <<>>
                   /\ UNCHANGED <<checking, error, gets, pollBit>>
        /\ last' = [ev |-> "tick", cause |-> "-", msg |-> "", resp |-> Null, late |-> FALSE]
        /\ UNCHANGED <<view, loading, status, posts, intervals, interval>>
        /\ UNCHANGED ucVars
        /\ UNCHANGED rowVars
        /\ UNCHANGED envVars

\* The commit that follows a continuation's setter calls: s is the snapshot now
\* held, q the requests still in flight, chk and err what the continuation set.
\* A changed dependency re-runs the effect: cleanup, then the body.
Commit(s, q, chk, err) ==
    IF view = "mounted" /\ DepsChanged(status, s)
      THEN PollEffect("effect", q, Cleanup(intervals, interval), s)
      ELSE /\ checking' = chk
           /\ error' = err
           /\ gets' = q
           /\ issued' = <<>>
           /\ UNCHANGED <<intervals, interval>>

\* A handler whose finally block is missing: loading is left as it is.
LoadingKept(g) == loading

\* `finally { setLoading(false) }` of handleRunSelfCheck, reached when the
\* checkStatus() it awaits has settled.
LoadingAfter(g) == IF g.cause = "action" THEN FALSE ELSE loading

\* A setter that merges the response into the held snapshot, keeping the
\* overallStatus already shown.
SetStatusMerged(held, r) ==
    IF held = Null THEN Some(r)
    ELSE Some([r EXCEPT !.overallStatus = held[1].overallStatus])

\* setStatus(response): the held snapshot is replaced by the response.
SetStatus(held, r) == Some(r)

\* The requests in flight once request i has resolved: those issued before it
\* are overtaken.
Overtake(q, i) ==
    [j \in 1..Len(q) |-> IF j < i THEN [q[j] EXCEPT !.overtaken = TRUE] ELSE q[j]]

\* A GET resolves with snapshot r: setStatus(response), then setChecking(false).
GetOk ==
    \E i \in 1..Len(gets), r \in Snapshots :
        /\ status' = SetStatus(status, r)
        /\ loading' = LoadingAfter(gets[i])
        /\ Commit(SetStatus(status, r), RemoveAt(Overtake(gets, i), i), FALSE, error)
        /\ last' = [ev |-> "getOk", cause |-> gets[i].cause, msg |-> "", resp |-> Some(r),
                    late |-> gets[i].overtaken]
        /\ UNCHANGED <<view, posts, pollBit>>
        /\ UNCHANGED ucVars
        /\ UNCHANGED rowVars
        /\ UNCHANGED envVars

\* What the catch of checkStatus shows for a rejection with message m.
GetErrorText(m) == OrElse(m, "Failed to get self-check status")

\* A GET rejects with message m: setError(...), then setChecking(false).
GetFail ==
    \E i \in 1..Len(gets), m \in ErrMessages :
        /\ loading' = LoadingAfter(gets[i])
        /\ Commit(status, RemoveAt(gets, i), FALSE, Some(GetErrorText(m)))
        /\ last' = [ev |-> "getFail", cause |-> gets[i].cause, msg |-> m, resp |-> Null, late |-> FALSE]
        /\ UNCHANGED <<view, status, posts, pollBit>>
        /\ UNCHANGED ucVars
        /\ UNCHANGED rowVars
        /\ UNCHANGED envVars

\* The user presses Run Self-Check: handleRunSelfCheck up to its first await.
HandleRunSelfCheck ==
    /\ view = "mounted"
    /\ ButtonShown
    /\ loading' = TRUE
    /\ error' = Null
    /\ posts' = posts + 1
    /\ issued' = <<>>
    /\ last' = [ev |-> "click", cause |-> "-", msg |-> "", resp |-> Null, late |-> FALSE]
    /\ UNCHANGED <<view, checking, status, gets, intervals, interval, pollBit>>
    /\ UNCHANGED ucVars
    /\ UNCHANGED rowVars
    /\ UNCHANGED envVars

\* A handler that does not refresh the status after the POST.
PostOkNoRefetch ==
    /\ posts > 0
    /\ posts' = posts - 1
    /\ loading' = FALSE
    /\ issued' = <<>>
    /\ last' = [ev |-> "postOk", cause |-> "-", msg |-> "", resp |-> Null, late |-> FALSE]
    /\ UNCHANGED <<view, checking, error, status, gets, intervals, interval, pollBit>>
    /\ UNCHANGED ucVars
    /\ UNCHANGED rowVars
    /\ UNCHANGED envVars

\* POST self-check-run resolves: notify, then checkStatus() is called and awaited.
PostOk ==
    /\ posts > 0
    /\ Len(gets) < MaxInFlight
    /\ posts' = posts - 1
    /\ CheckStatus("action", gets)
    /\ last' = [ev |-> "postOk", cause |-> "-", msg |-> "", resp |-> Null, late |-> FALSE]
    /\ UNCHANGED <<view, loading, status, intervals, interval, pollBit>>
    /\ UNCHANGED ucVars
    /\ UNCHANGED rowVars
    /\ UNCHANGED envVars

\* The fallback text of the other catch.
PostErrorTextOfGet(m) == OrElse(m, "Failed to get self-check status")

\* What the catch of handleRunSelfCheck shows for a rejection with message m.
PostErrorText(m) == OrElse(m, "Self-check failed")

\* POST self-check-run rejects with message m: setError(...), setLoading(false).
PostFail ==
    \E m \in ErrMessages :
        /\ posts > 0
        /\ posts' = posts - 1
        /\ error' = Some(PostErrorText(m))
        /\ loading' = FALSE
        /\ issued' = <<>>
        /\ last' = [ev |-> "postFail", cause |-> "-", msg |-> m, resp |-> Null, late |-> FALSE]
        /\ UNCHANGED <<view, checking, status, gets, intervals, interval, pollBit>>
        /\ UNCHANGED ucVars
        /\ UNCHANGED rowVars
        /\ UNCHANGED envVars

\* A teardown that leaves the timer armed.
UnmountKeepsTimer ==
    /\ view = "mounted"
    /\ view' = "unmounted"
    /\ issued' = <<>>
    /\ last' = [ev |-> "unmount", cause |-> "-", msg |-> "", resp |-> Null, late |-> FALSE]
    /\ UNCHANGED <<loading, checking, error, status, gets, posts, intervals,
                   interval, pollBit>>
    /\ UNCHANGED ucVars
    /\ UNCHANGED rowVars
    /\ UNCHANGED envVars

\* The view is torn down: the pending cleanup of the effect runs.
Unmount ==
    /\ view = "mounted"
    /\ view' = "unmounted"
    /\ intervals' = Cleanup(intervals, interval)
    /\ interval' = 0
    /\ issued' = <<>>
    /\ last' = [ev |-> "unmount", cause |-> "-", msg |-> "", resp |-> Null, late |-> FALSE]
    /\ UNCHANGED <<loading, checking, error, status, gets, posts, pollBit>>
    /\ UNCHANGED ucVars
    /\ UNCHANGED rowVars
    /\ UNCHANGED envVars

NextSC ==
    \/ Mount
    \/ Tick
    \/ GetOk
    \/ GetFail
    \/ HandleRunSelfCheck
    \/ PostOk
    \/ PostFail
    \/ Unmount


----------------------------------------------------------------------------
(* UpdateChannel *)

\* The requests UpdateChannel sends.
GetChannelReq == [req |-> "GET /api/admin/update-channel", updateUrl |-> Null]

PostChannelReq(url) == [req |-> "POST /api/admin/update-channel", updateUrl |-> Some(url)]

PostRunReq == [req |-> "POST /api/admin/self-check-run", updateUrl |-> Null]

\* First commit of UpdateChannel: the mount effect calls loadCurrentConfig().
UcMount ==
    /\ ucView = "created"
    /\ ucView' = "mounted"
    /\ loads' = loads + 1
    /\ ucSent' = <<GetChannelReq>>
    /\ ucLast' = [ev |-> "mount", msg |-> "", url |-> Null]
    /\ UNCHANGED <<ucLoading, ucError, config, customUrl, saves>>
    /\ UNCHANGED scVars
    /\ UNCHANGED rowVars
    /\ UNCHANGED envVars

\* An inference that does not know the "local" sentinel.
InferConfigNoLocal(u) ==
    IF u = Null \/ u[1] = EmptyString THEN [channel |-> "stable", customUrl |-> Null]
    ELSE IF u[1] = DevUrl THEN [channel |-> "dev", customUrl |-> Null]
    ELSE [channel |-> "custom", customUrl |-> u]

\* The config loadCurrentConfig sets for a response's updateUrl u (Null: null).
InferConfig(u) ==
    IF u = Null \/ u[1] = EmptyString THEN [channel |-> "stable", customUrl |-> Null]
    ELSE IF u[1] = LocalUrl THEN [channel |-> "local", customUrl |-> Null]
    ELSE IF u[1] = DevUrl THEN [channel |-> "dev", customUrl |-> Null]
    ELSE [channel |-> "custom", customUrl |-> u]

\* A load that trims the URL it puts into the field.
InferCustomUrlTrimmed(u) ==
    IF InferConfig(u).channel = "custom" THEN Trim(u[1]) ELSE customUrl

\* The custom URL field after loadCurrentConfig: setCustomUrl runs in the last branch only.
InferCustomUrl(u) ==
    IF InferConfig(u).channel = "custom" THEN u[1] ELSE customUrl

\* GET update-channel resolves with updateUrl u.
LoadOk ==
    \E u \in {Null} \cup {Some(x) : x \in Strings} :
        /\ loads > 0
        /\ loads' = loads - 1
        /\ config' = InferConfig(u)
        /\ customUrl' = InferCustomUrl(u)
        /\ ucSent' = <<>>
        /\ ucLast' = [ev |-> "loadOk", msg |-> "", url |-> u]
        /\ UNCHANGED <<ucView, ucLoading, ucError, saves>>
        /\ UNCHANGED scVars
        /\ UNCHANGED rowVars
        /\ UNCHANGED envVars

\* GET update-channel rejects with message m.
LoadFail ==
    \E m \in ErrMessages :
        /\ loads > 0
        /\ loads' = loads - 1
        /\ ucError' = Some(OrElse(m, "Failed to load update channel configuration"))
        /\ ucSent' = <<>>
        /\ ucLast' = [ev |-> "loadFail", msg |-> m, url |-> Null]
        /\ UNCHANGED <<ucView, ucLoading, config, customUrl, saves>>
        /\ UNCHANGED scVars
        /\ UNCHANGED rowVars
        /\ UNCHANGED envVars

\* A channel change that also empties the custom URL.
HandleChannelChangeClearsUrl ==
    \E channel \in Channels :
        /\ ucView = "mounted"
        /\ ~ucLoading
        /\ config' = [channel |-> channel, customUrl |-> Some(EmptyString)]
        /\ customUrl' = EmptyString
        /\ ucError' = Null
        /\ ucSent' = <<>>
        /\ ucLast' = [ev |-> "channelChange", msg |-> "", url |-> Null]
        /\ UNCHANGED <<ucView, ucLoading, loads, saves>>
        /\ UNCHANGED scVars
        /\ UNCHANGED rowVars
        /\ UNCHANGED envVars

\* The Select's onChange; the Select is disabled while loading.
HandleChannelChange ==
    \E channel \in Channels :
        /\ ucView = "mounted"
        /\ ~ucLoading
        /\ config' = [config EXCEPT !.channel = channel]
        /\ ucError' = Null
        /\ ucSent' = <<>>
        /\ ucLast' = [ev |-> "channelChange", msg |-> "", url |-> Null]
        /\ UNCHANGED <<ucView, ucLoading, customUrl, loads, saves>>
        /\ UNCHANGED scVars
        /\ UNCHANGED rowVars
        /\ UNCHANGED envVars

\* The TextField's onChange; the field is rendered for channel custom only and
\* is disabled while loading.
HandleCustomUrlChange ==
    \E url \in Strings :
        /\ ucView = "mounted"
        /\ config.channel = "custom"
        /\ ~ucLoading
        /\ customUrl' = url
        /\ config' = [config EXCEPT !.customUrl = Some(url)]
        /\ ucSent' = <<>>
        /\ ucLast' = [ev |-> "customUrlChange", msg |-> "", url |-> Null]
        /\ UNCHANGED <<ucView, ucLoading, ucError, loads, saves>>
        /\ UNCHANGED scVars
        /\ UNCHANGED rowVars
        /\ UNCHANGED envVars

\* A getUpdateUrl that trims the custom URL it returns.
GetUpdateUrlTrimmed ==
    CASE config.channel = "local" -> LocalUrl
      [] config.channel = "dev" -> DevUrl
      [] config.channel = "custom" -> Trim(customUrl)
      [] OTHER -> EmptyString

\* A getUpdateUrl whose dev and local cases are exchanged.
GetUpdateUrlSwapped ==
    CASE config.channel = "local" -> DevUrl
      [] config.channel = "dev" -> LocalUrl
      [] config.channel = "custom" -> customUrl
      [] OTHER -> EmptyString

\* getUpdateUrl(): the URL sent for the selected channel.
GetUpdateUrl ==
    CASE config.channel = "local" -> LocalUrl
      [] config.channel = "dev" -> DevUrl
      [] config.channel = "custom" -> customUrl
      [] OTHER -> EmptyString

\* A validation that does not trim: only the empty string is refused.
SaveInvalidNoTrim == config.channel = "custom" /\ customUrl = EmptyString

\* The text of the fallback of the Current URL line.
DefaultUrlText == <<"Default (no value)">>

\* A Current URL line without its fallback.
CurrentUrlTextNoDefault == GetUpdateUrl

\* The render's Current URL line: getUpdateUrl() || 'Default (no value)'.
CurrentUrlText == IF GetUpdateUrl = EmptyString THEN DefaultUrlText ELSE GetUpdateUrl

\* The validation of handleSaveChannel: custom needs a URL that is not blank.
SaveInvalid == config.channel = "custom" /\ Trim(customUrl) = EmptyString

\* The user presses Save Channel (rendered while not loading): handleSaveChannel
\* up to its return or its first await.
HandleSaveChannel ==
    /\ ucView = "mounted"
    /\ ~ucLoading
    /\ IF SaveInvalid
         THEN /\ ucError' = Some("Custom URL is required when using custom channel")
              /\ ucLoading' = FALSE
              /\ ucSent' = <<>>
              /\ UNCHANGED saves
         ELSE /\ ucError' = Null
              /\ ucLoading' = TRUE
              /\ saves' = Append(saves, [phase |-> "channel", updateUrl |-> GetUpdateUrl])
              /\ ucSent' = <<PostChannelReq(GetUpdateUrl)>>
    /\ ucLast' = [ev |-> "save", msg |-> "", url |-> Null]
    /\ UNCHANGED <<ucView, config, customUrl, loads>>
    /\ UNCHANGED scVars
    /\ UNCHANGED rowVars
    /\ UNCHANGED envVars

\* POST update-channel resolves: notify, then POST self-check-run is sent.
SaveChannelOk ==
    \E i \in 1..Len(saves) :
        /\ saves[i].phase = "channel"
        /\ saves' = [saves EXCEPT ![i].phase = "run"]
        /\ ucSent' = <<PostRunReq>>
        /\ ucLast' = [ev |-> "saveChannelOk", msg |-> "", url |-> Null]
        /\ UNCHANGED <<ucView, ucLoading, ucError, config, customUrl, loads>>
        /\ UNCHANGED scVars
        /\ UNCHANGED rowVars
        /\ UNCHANGED envVars

\* What the catch of handleSaveChannel shows for a rejection with message m.
SaveErrorText(m) == OrElse(m, "Failed to save update channel")

\* Either POST of a save rejects with message m: setError(...), setLoading(false).
SaveFail ==
    \E i \in 1..Len(saves), m \in ErrMessages :
        /\ saves' = RemoveAt(saves, i)
        /\ ucError' = Some(SaveErrorText(m))
        /\ ucLoading' = FALSE
        /\ ucSent' = <<>>
        /\ ucLast' = [ev |-> IF saves[i].phase = "channel" THEN "saveChannelFail"
                                                          ELSE "saveRunFail",
                      msg |-> m, url |-> Null]
        /\ UNCHANGED <<ucView, config, customUrl, loads>>
        /\ UNCHANGED scVars
        /\ UNCHANGED rowVars
        /\ UNCHANGED envVars

\* POST self-check-run resolves: notify, setLoading(false).
SaveRunOk ==
    \E i \in 1..Len(saves) :
        /\ saves[i].phase = "run"
        /\ saves' = RemoveAt(saves, i)
        /\ ucLoading' = FALSE
        /\ ucSent' = <<>>
        /\ ucLast' = [ev |-> "saveRunOk", msg |-> "", url |-> Null]
        /\ UNCHANGED <<ucView, ucError, config, customUrl, loads>>
        /\ UNCHANGED scVars
        /\ UNCHANGED rowVars
        /\ UNCHANGED envVars

NextUC ==
    \/ UcMount
    \/ LoadOk
    \/ LoadFail
    \/ HandleChannelChange
    \/ HandleCustomUrlChange
    \/ HandleSaveChannel
    \/ SaveChannelOk
    \/ SaveFail
    \/ SaveRunOk

\* The SelfCheck view on its own.
Next == NextSC

Spec == Init /\ [][Next]_vars

\* The UpdateChannel view on its own.
SpecUC == Init /\ [][NextUC]_vars

\* getStatusIcon(success): a green check or a red error icon.
GetStatusIcon(success) == IF success THEN "CheckCircleIcon" ELSE "ErrorIcon"

\* Rows whose icon follows the snapshot's overallStatus.
ScriptRowsByOverall(s) ==
    [k \in 1..Len(s.scripts) |->
        [name |-> s.scripts[k].name, icon |-> GetStatusIcon(s.overallStatus = "success")]]

\* The script rows of the render: Object.entries(status.scripts).map(...), under
\* `status && Object.keys(status.scripts).length > 0`.
ScriptRows(s) ==
    [k \in 1..Len(s.scripts) |->
        [name |-> s.scripts[k].name, icon |-> GetStatusIcon(s.scripts[k].success)]]

\* A render of the held snapshot produces its script rows.
RenderRows ==
    /\ shown # Null
    /\ rows = Null
    /\ rows' = Some(ScriptRows(shown[1]))
    /\ UNCHANGED <<shown, scVars, ucVars>>
    /\ UNCHANGED envVars

\* The render of the script rows, for every snapshot a response may carry.
InitRender ==
    /\ InitSC /\ InitUC /\ InitEnv
    /\ shown \in {Some(s) : s \in FullSnapshots}
    /\ rows = Null

SpecRows == InitRender /\ [][RenderRows]_vars

----------------------------------------------------------------------------
(* EnvConfiguration *)

\* First commit of EnvConfiguration: the effect calls fetchConfig(), which runs
\* up to its await.
EnvMount ==
    /\ envView = "created"
    /\ envView' = "mounted"
    /\ envLoading' = TRUE
    /\ envError' = Null
    /\ envGets' = envGets + 1
    /\ envLast' = [ev |-> "mount", status |-> "", data |-> Null]
    /\ UNCHANGED <<showPassword, envConfig>>
    /\ UNCHANGED <<scVars, ucVars, rowVars>>

\* A continuation that applies the data of every response.
EnvConfigOfAnyStatus(held, st, data) == data

\* The config after a response: setConfig(response.data) for status 'success'.
EnvConfigAfter(held, st, data) == IF st = "success" THEN data ELSE held

\* The error after a response: set for every status other than 'success'.
EnvErrorAfter(held, st) ==
    IF st = "success" THEN held ELSE Some("Failed to load configuration")

\* GET get-environment resolves with {status: st, data}.
EnvGetOk ==
    \E st \in EnvStatuses, data \in ConfigValues :
        /\ envGets > 0
        /\ envGets' = envGets - 1
        /\ envConfig' = EnvConfigAfter(envConfig, st, data)
        /\ envError' = EnvErrorAfter(envError, st)
        /\ envLoading' = FALSE
        /\ envLast' = [ev |-> "getOk", status |-> st, data |-> Some(data)]
        /\ UNCHANGED <<envView, showPassword>>
        /\ UNCHANGED <<scVars, ucVars, rowVars>>

\* err instanceof Error ? err.message : 'Failed to load configuration'
EnvErrorText(rej) == IF rej # Null THEN rej[1] ELSE "Failed to load configuration"

\* GET get-environment rejects with rej.
EnvGetFail ==
    \E rej \in EnvRejections :
        /\ envGets > 0
        /\ envGets' = envGets - 1
        /\ envError' = Some(EnvErrorText(rej))
        /\ envLoading' = FALSE
        /\ envLast' = [ev |-> "getFail", status |-> "", data |-> Null]
        /\ UNCHANGED <<envView, showPassword, envConfig>>
        /\ UNCHANGED <<scVars, ucVars, rowVars>>

\* What the render of EnvConfiguration returns: `if (loading)`, `if (error)`,
\* else the field list.
EnvShown ==
    IF envLoading THEN "loading"
    ELSE IF envError # Null /\ envError[1] # "" THEN "error"
    ELSE "fields"

\* The user presses the visibility toggle of the password field.
HandleTogglePasswordVisibility ==
    /\ envView = "mounted"
    /\ EnvShown = "fields"
    /\ showPassword' = ~showPassword
    /\ envLast' = [ev |-> "toggle", status |-> "", data |-> Null]
    /\ UNCHANGED <<envView, envConfig, envLoading, envError, envGets>>
    /\ UNCHANGED <<scVars, ucVars, rowVars>>

NextEnv ==
    \/ EnvMount
    \/ EnvGetOk
    \/ EnvGetFail
    \/ HandleTogglePasswordVisibility

\* The EnvConfiguration view on its own.
SpecEnv == Init /\ [][NextEnv]_vars

\* Either view on its own: the views share no state, so a run is a run of
\* SelfCheck or a run of UpdateChannel.
NextViews ==
    \/ ucView = "created" /\ Mount
    \/ ucView = "created" /\ Tick
    \/ ucView = "created" /\ GetOk
    \/ ucView = "created" /\ GetFail
    \/ ucView = "created" /\ HandleRunSelfCheck
    \/ ucView = "created" /\ PostOk
    \/ ucView = "created" /\ PostFail
    \/ ucView = "created" /\ Unmount
    \/ view = "created" /\ UcMount
    \/ view = "created" /\ LoadOk
    \/ view = "created" /\ LoadFail
    \/ view = "created" /\ HandleChannelChange
    \/ view = "created" /\ HandleCustomUrlChange
    \/ view = "created" /\ HandleSaveChannel
    \/ view = "created" /\ SaveChannelOk
    \/ view = "created" /\ SaveFail
    \/ view = "created" /\ SaveRunOk

SpecViews == Init /\ [][NextViews]_vars

\* Timers fire and requests settle: the interval timer runs its callback every
\* period while armed, and every request sent resolves or rejects.
SpecLive ==
    /\ Init
    /\ [][Next]_vars
    /\ WF_vars(Tick)
    /\ WF_vars(GetOk \/ GetFail)
    /\ WF_vars(PostOk \/ PostFail)
----------------------------------------------------------------------------
(* Claims about SelfCheck *)

Mounted == view = "mounted"

Running == IsRunning(status)

\* C1: once a response with isRunning = true has been applied, the next GET
\* is issued by the 2000 ms timer only: every GET issued by a step that ends
\* with a running snapshot held is the tick's.
C1_NextGetOnlyByTick ==
    [][Running' => \A k \in 1..Len(issued') : issued'[k] = "tick"]_vars

\* C2: once the held snapshot has isRunning = false, no GET is issued
\* automatically: every GET issued by a step that ends with a settled snapshot
\* held is the one handleRunSelfCheck issues.
C2_NoAutomaticGetWhenSettled ==
    [][(status' # Null /\ ~Running') =>
          \A k \in 1..Len(issued') : issued'[k] = "action"]_vars

\* C3: at most one GET self-check-status of the view is in flight at any time.
C3_AtMostOneGetInFlight == Len(gets) <= 1

\* C4: after the view is unmounted no response is applied to it: status,
\* error, checking and loading are not written after teardown.
C4_NothingAppliedAfterUnmount ==
    [][view = "unmounted" => UNCHANGED <<status, error, checking, loading>>]_vars

\* C5: unmounting cancels the poll timer in the same step, and no timer tick
\* issues a GET at any later time.
C5_TimerCancelledOnUnmount ==
    [][/\ view' = "unmounted" => intervals' = {}
       /\ view = "unmounted" => \A k \in 1..Len(issued') : issued'[k] # "tick"]_vars

\* C5 witness: the view was unmounted while its timer polled a running check.
C5_Witness ==
    /\ last.ev = "unmount"
    /\ Running
    /\ intervals = {}

C7_PollingNeverStops ==
    \A b \in BOOLEAN :
        (Mounted /\ Running /\ pollBit = b) ~> (~(Mounted /\ Running) \/ pollBit # b)

\* C7 witness: a poll issued by the timer has just failed while the view is
\* mounted and the held snapshot is running.
C7_Witness ==
    /\ last.ev = "getFail" /\ last.cause = "tick"
    /\ Mounted /\ Running
    /\ error # Null

C9_PostFailure ==
    [][last'.ev = "postFail" =>
          /\ issued' = <<>>
          /\ gets' = gets
          /\ status' = status
          /\ error' = Some(IF last'.msg = "" THEN "Self-check failed" ELSE last'.msg)]_vars

\* C9 witness: a run action failed at its POST without a message, a snapshot
\* being held.
C9_Witness ==
    /\ last.ev = "postFail" /\ last.msg = ""
    /\ status # Null
    /\ error = Some("Self-check failed")
\* C17: a successful GET replaces the held snapshot with the response as a
\* whole, a failed GET leaves the held snapshot exactly as it was and sets
\* error, and no other operation changes the snapshot.
C17_SnapshotReplacedWholesale ==
    [][/\ last'.ev = "getOk" => (last'.resp # Null /\ status' = last'.resp)
       /\ last'.ev = "getFail" =>
              /\ status' = status
              /\ error' = Some(IF last'.msg = "" THEN "Failed to get self-check status"
                                                 ELSE last'.msg)
       /\ last'.ev # "getOk" => status' = status]_vars

\* C17 witness: a GET failed while a snapshot was held; the snapshot is kept
\* and the error shown.
C17_Witness ==
    /\ last.ev = "getFail"
    /\ status = Some([isRunning |-> FALSE, overallStatus |-> "partial"])
    /\ error = Some("Network error")

\* C18: the view holds no snapshot until a GET has succeeded, and the absent
\* snapshot is never presented as never_run: the status chip is shown iff a
\* snapshot is held, and then shows that snapshot's own overallStatus.
C18_AbsentIsNotNeverRun ==
    /\ [](Chip = Null <=> status = Null)
    /\ [](status # Null =>
            Chip = Some(CASE status[1].overallStatus = "success" -> <<"SUCCESS">>
                          [] status[1].overallStatus = "failure" -> <<"FAILURE">>
                          [] status[1].overallStatus = "partial" -> <<"PARTIAL">>
                          [] status[1].overallStatus = "never_run" -> <<"NEVER", " ", "RUN">>))
    /\ [][(status = Null /\ status' # Null) => last'.ev = "getOk"]_vars

\* C18 witness: the first fetch failed, so no snapshot is held and no chip is
\* shown.
C18_Witness ==
    /\ last.ev = "getFail"
    /\ status = Null
    /\ Chip = Null
    /\ error # Null

\* C20: after a failed run-self-check POST, once the outstanding requests
\* have completed, the Run Self-Check button is available again for a retry.
C20_RetryAvailableAfterFailure ==
    (/\ Mounted
     /\ posts = 0
     /\ gets = <<>>
     /\ error = Some("Self-check failed")) => ButtonShown

\* C21: no GET is issued automatically after a failed GET: in the state a
\* failed self-check-status GET leaves, with no snapshot held or a snapshot with
\* isRunning = false, the next step issues no GET except the one that
\* handleRunSelfCheck issues for the user.
C21_NoGetAfterFailedGet ==
    [][(last.ev = "getFail" /\ ~Running) =>
          \A k \in 1..Len(issued') : issued'[k] = "action"]_vars

C23_NoLateResponseApplied ==
    [][last'.ev = "getOk" => ~last'.late]_vars

\* C24: if from some point on every self-check-status GET is answered, and
\* answered with isRunning = false, then from some point on the view issues no
\* GET by itself: every GET issued is the one handleRunSelfCheck issues.
C24_AutomaticFetchingTerminates ==
    (<>[][/\ last'.ev # "getFail"
          /\ last'.ev = "getOk" => ~last'.resp[1].isRunning]_vars)
        => <>[][\A k \in 1..Len(issued') : issued'[k] = "action"]_vars

\* C24 witness: the view polled a running check, the last poll was answered
\* with isRunning = false, the effect's GET after it was answered the same, and
\* the view is mounted with nothing in flight and a timer that does not fetch.
C24_Witness ==
    /\ Mounted
    /\ pollBit
    /\ last.ev = "getOk" /\ last.cause = "effect"
    /\ status # Null /\ ~Running
    /\ gets = <<>> /\ posts = 0
    /\ \A t \in intervals : ~TickFetches(t)

\* C25: checking is true exactly when at least one self-check-status GET of
\* the view is in flight.
C25_CheckingIffGetInFlight == checking <=> (Len(gets) >= 1)

\* C28: whenever no request of the view is outstanding, error is non-null
\* only if the request that completed last failed: when the step just taken is
\* a GET that succeeded and nothing is outstanding, no error is shown.
C28_NoErrorAfterLastSuccess ==
    (last.ev = "getOk" /\ gets = <<>> /\ posts = 0) => error = Null

----------------------------------------------------------------------------
(* Claims about UpdateChannel *)

\* C10: a save that passes validation sends exactly one POST update-channel,
\* whose updateUrl is the selected channel's URL (dev: the main.zip archive
\* URL, local: "local", stable: "", custom: the custom URL field); a POST
\* self-check-run is sent exactly once, by the step in which that POST
\* update-channel succeeds, and by no other step.
C10_SaveSendsChannelThenRun ==
    [][/\ (ucLast'.ev = "save" /\ ~(config.channel = "custom" /\ Trim(customUrl) = <<>>)) =>
              ucSent' = <<PostChannelReq(
                  CASE config.channel = "dev" -> <<DevToken>>
                    [] config.channel = "local" -> <<"local">>
                    [] config.channel = "stable" -> <<>>
                    [] config.channel = "custom" -> customUrl)>>
       /\ ucLast'.ev # "save" =>
              \A k \in 1..Len(ucSent') : ucSent'[k].req # "POST /api/admin/update-channel"
       /\ ucLast'.ev = "saveChannelOk" => ucSent' = <<PostRunReq>>
       /\ ucLast'.ev # "saveChannelOk" => \A k \in 1..Len(ucSent') : ucSent'[k] # PostRunReq
       /\ ucLast'.ev = "saveChannelOk" =>
              \E i \in 1..Len(saves) : saves[i].phase = "channel" /\ saves'[i].phase = "run"
      ]_vars

\* C10 witness: a save with channel dev has had its POST update-channel
\* succeed and its POST self-check-run sent.
C10_Witness ==
    /\ ucLast.ev = "saveChannelOk"
    /\ ucSent = <<PostRunReq>>
    /\ \E i \in 1..Len(saves) : saves[i] = [phase |-> "run", updateUrl |-> DevUrl]

\* C11: saving with channel custom and a custom URL that is empty or only
\* whitespace fails validation before any network call: no POST is sent, error
\* is the validation message and loading is false afterwards.
C11_BlankCustomUrlRefused ==
    [][(/\ ucLast'.ev = "save"
        /\ config.channel = "custom"
        /\ \A k \in 1..Len(customUrl) : customUrl[k] = " ") =>
          /\ ucSent' = <<>>
          /\ saves' = saves
          /\ ucError' = Some("Custom URL is required when using custom channel")
          /\ ucLoading' = FALSE]_vars

\* C11 witness: a save with channel custom and a whitespace-only URL was refused.
C11_Witness ==
    /\ ucLast.ev = "save"
    /\ config.channel = "custom"
    /\ customUrl = <<" ", " ">>
    /\ ucError = Some("Custom URL is required when using custom channel")
    /\ saves = <<>>

\* C14: for each of the channels stable, dev and local, inferring the channel
\* from the URL getUpdateUrl produces for it gives back the same channel.
C14_InferInvertsToUrl ==
    config.channel \in {"stable", "dev", "local"} =>
        InferConfig(Some(GetUpdateUrl)).channel = config.channel

\* C14 witness: channel local is selected and its URL "local" has been sent
\* by a save.
C14_Witness ==
    /\ config.channel = "local"
    /\ ucLast.ev = "save"
    /\ ucSent = <<PostChannelReq(<<"local">>)>>


\* C15: for every non-null URL u the GET returns, the state loadCurrentConfig
\* sets maps back to exactly u (getUpdateUrl() = u); the channel is inferred
\* by exact equality ("" stable, "local" local, the main.zip URL dev), and any
\* other string gives channel custom with the field holding u unchanged.
C15_LoadedStateMapsBack ==
    [][(ucLast'.ev = "loadOk" /\ ucLast'.url # Null) =>
          LET u == ucLast'.url[1] IN
          /\ GetUpdateUrl' = u
          /\ config'.channel = (CASE u = <<>> -> "stable"
                                   [] u = <<"local">> -> "local"
                                   [] u = <<DevToken>> -> "dev"
                                   [] OTHER -> "custom")
          /\ config'.channel = "custom" =>
                (customUrl' = u /\ config'.customUrl = Some(u))]_vars

\* C15 witness: the GET returned a URL with surrounding whitespace, which is
\* shown as custom with the field holding it as it came.
C15_Witness ==
    /\ ucLast.ev = "loadOk"
    /\ ucLast.url = Some(<<" ", "local">>)
    /\ config.channel = "custom"
    /\ customUrl = <<" ", "local">>

\* C16: when the GET returns updateUrl null (or the empty string) and the user
\* has made no edit since, the displayed channel is stable and the displayed
\* current URL is "Default (no value)".
C16_NullLoadsAsStableDefault ==
    (ucLast.ev = "loadOk" /\ ucLast.url \in {Null, Some(<<>>)}) =>
        /\ config.channel = "stable"
        /\ CurrentUrlText = <<"Default (no value)">>

\* C16 witness: the GET has returned null and the view shows what it loaded.
C16_Witness ==
    /\ ucLast.ev = "loadOk"
    /\ ucLast.url = Null
    /\ config = [channel |-> "stable", customUrl |-> Null]

\* C26 as stated: for every selection that passes validation, inferring the
\* channel from the updateUrl the save sends gives back the selected channel,
\* and for custom the same custom URL, for every custom URL string.
C26_SaveLoadRoundTrip ==
    (ucLast.ev = "save" /\ ucSent # <<>>) =>
        LET loaded == InferConfig(ucSent[1].updateUrl) IN
        /\ loaded.channel = config.channel
        /\ config.channel = "custom" => loaded.customUrl = Some(customUrl)

\* C26 amended: the round trip holds for stable, dev and local, and for custom
\* when the custom URL is neither "local" nor the dev archive URL; the URL sent
\* for custom is the field as typed, and a custom URL equal to one of the two
\* loads as that channel (local or dev) instead of custom.
C26_RoundTripExceptSentinels ==
    (ucLast.ev = "save" /\ ucSent # <<>>) =>
        LET sent == ucSent[1].updateUrl
            loaded == InferConfig(sent) IN
        /\ config.channel # "custom" => loaded.channel = config.channel
        /\ config.channel = "custom" =>
              /\ sent = Some(customUrl)
              /\ loaded = (CASE customUrl = <<"local">> -> [channel |-> "local", customUrl |-> Null]
                             [] customUrl = <<DevToken>> -> [channel |-> "dev", customUrl |-> Null]
                             [] OTHER -> [channel |-> "custom", customUrl |-> Some(customUrl)])

\* C26 witness: a save with channel custom has sent a URL that starts with
\* whitespace, as typed.
C26_Witness ==
    /\ ucLast.ev = "save"
    /\ config.channel = "custom"
    /\ customUrl = <<" ", "local">>
    /\ ucSent = <<PostChannelReq(<<" ", "local">>)>>

\* C27: the response of the on-mount GET never overwrites a user edit: right
\* after handleChannelChange or handleCustomUrlChange has run, or while a save
\* is outstanding, the GET's response changes neither config.channel nor the
\* custom URL field.
C27_LoadKeepsUserEdit ==
    [][(/\ ucLast.ev \in {"channelChange", "customUrlChange"} \/ saves # <<>>
        /\ ucLast'.ev = "loadOk") =>
          (config'.channel = config.channel /\ customUrl' = customUrl)]_vars

\* C30: handleChannelChange changes only config.channel and clears error,
\* leaving the custom URL (field and config.customUrl) and loading unchanged;
\* handleCustomUrlChange changes only the custom URL, in the field and in
\* config.customUrl alike, leaving config.channel, error and loading unchanged.
\* Neither sends a request.
C30_EditHandlersFrame ==
    [][/\ ucLast'.ev = "channelChange" =>
             /\ customUrl' = customUrl
             /\ config'.customUrl = config.customUrl
             /\ ucError' = Null
             /\ ucLoading' = ucLoading
             /\ UNCHANGED <<loads, saves, ucView>> /\ ucSent' = <<>>
       /\ ucLast'.ev = "customUrlChange" =>
             /\ config'.channel = config.channel
             /\ config'.customUrl = Some(customUrl')
             /\ ucError' = ucError
             /\ ucLoading' = ucLoading
             /\ UNCHANGED <<loads, saves, ucView>> /\ ucSent' = <<>>]_vars

\* C30 witness: with a custom URL typed, the channel has just been switched
\* away from custom and the typed URL is still held.
C30_Witness ==
    /\ ucLast.ev = "channelChange"
    /\ config.channel = "stable"
    /\ customUrl = <<"https://mycustom/repo.zip">>
    /\ config.customUrl = Some(customUrl)

----------------------------------------------------------------------------
(* Claims about both views *)

\* A request of a handleRunSelfCheck call is outstanding: its POST, or the GET
\* of the checkStatus() it awaits.
RunOutstanding == posts > 0 \/ \E k \in 1..Len(gets) : gets[k].cause = "action"

\* C12: in handleRunSelfCheck and handleSaveChannel, loading is set when the
\* action starts and before a request is sent, is true whenever a request of
\* the action is outstanding, and is false once the action has finished by
\* any exit path (success, request failure, validation failure).
C12_BusyFlag ==
    /\ [](RunOutstanding => loading)
    /\ [](saves # <<>> => ucLoading)
    /\ [][/\ last'.ev = "click" => (loading' /\ posts' = posts + 1)
          /\ last'.ev = "postFail" => ~loading'
          /\ (last'.ev \in {"getOk", "getFail"} /\ last'.cause = "action") => ~loading'
          /\ ucLast'.ev = "save" => (ucLoading' <=> ucSent' # <<>>)
          /\ ucLast'.ev \in {"saveChannelFail", "saveRunFail", "saveRunOk"} => ~ucLoading'
         ]_vars

\* C12 witness: a run action has finished with a successful re-fetch, nothing
\* of it is outstanding and loading is false again.
C12_Witness ==
    /\ last.ev = "getOk" /\ last.cause = "action"
    /\ ~RunOutstanding
    /\ ~loading

\* The handleRunSelfCheck calls in progress.
RunsInProgress == posts + Cardinality({k \in 1..Len(gets) : gets[k].cause = "action"})

\* C13: a second trigger cannot start while one is outstanding: Run Self-Check
\* is pressed only when loading, checking and the snapshot's isRunning are all
\* false, Save Channel only when loading is false, and at most one run action
\* and at most one save are in progress per view.
C13_OneActionAtATime ==
    /\ [](RunsInProgress <= 1)
    /\ [](Len(saves) <= 1)
    /\ [][/\ last'.ev = "click" => (~loading /\ ~checking /\ ~Running)
          /\ ucLast'.ev = "save" => ~ucLoading]_vars

\* C13 witness: a run action is in progress (its POST is outstanding) and the
\* button is not offered.
C13_Witness ==
    /\ last.ev = "click"
    /\ RunsInProgress = 1
    /\ ~ButtonShown

----------------------------------------------------------------------------
(* Claims about the script rows *)

\* C19: each script row is derived only from that script's result: the row
\* is pass iff success is true and fail otherwise, whatever the snapshot's
\* overallStatus and isRunning; a partial snapshot whose scripts all succeeded
\* renders all rows as pass.
C19_RowFollowsItsScript ==
    rows # Null =>
        /\ Len(rows[1]) = Len(shown[1].scripts)
        /\ \A k \in 1..Len(rows[1]) :
              /\ rows[1][k].name = shown[1].scripts[k].name
              /\ rows[1][k].icon =
                    (IF shown[1].scripts[k].success = TRUE THEN "CheckCircleIcon"
                                                          ELSE "ErrorIcon")

\* C19 witness: a snapshot with overallStatus partial and two successful
\* scripts has been rendered.
C19_Witness ==
    /\ rows # Null
    /\ shown[1].overallStatus = "partial"
    /\ Len(shown[1].scripts) = 2
    /\ \A k \in 1..2 : shown[1].scripts[k].success /\ rows[1][k].icon = "CheckCircleIcon"

----------------------------------------------------------------------------
(* Claims about EnvConfiguration *)

====
